---- MODULE Spec2Model ----
(***************************************************************************)
(* Model of packages/nitro/src/build.ts: the server-bundle build           *)
(* orchestrator (prepare, build, writeTypes, _build, startRollupWatcher,   *)
(* _watch).                                                                *)
(*                                                                         *)
(* Strings that the code inspects character by character (paths, handler   *)
(* file names) are sequences of one-character strings.  An awaited         *)
(* operation suspends its function until it settles, so the start and the  *)
(* settlement of an awaited call form one step of that function; a call    *)
(* that is not awaited (writeTypes in the scanner callback) is split into  *)
(* its synchronous part and a later settlement.                            *)
(***************************************************************************)
EXTENDS Naturals, Sequences, FiniteSets

VARIABLES
  pc,                \* position of the caller's prepare(); build() sequence
  error,             \* what build rejected with ("" while it has not)
  dev,               \* nitroContext._nuxt.dev
  output,            \* nitroContext.output: [dir, publicDir, serverDir]
  vfs,               \* nitroContext.vfs[htmlTemplate.src]
  disk,              \* the template file on disk
  middleware,        \* nitroContext.middleware (configured entries)
  commands,          \* nitroContext.commands: [preview, deploy]
  emptied,           \* directories handed to fse.emptyDir, in order
  log,               \* observable steps, hook calls and console lines
  htmlTemplate,      \* htmlTemplate.contents
  templateModule,    \* the compiled .mjs file
  diskReads,         \* number of fse.readFile calls
  rollupConfig,      \* nitroContext.rollupConfig
  scannedMiddleware, \* nitroContext.scannedMiddleware
  declFile,          \* <buildDir>/types/nitro.d.ts
  pending,           \* writeFile calls of writeTypes that have not settled
  writeTypesCalls,   \* number of writeTypes invocations
  manifest,          \* <output.dir>/nitro.json
  hints,             \* preview/deploy hints printed
  watchers,          \* every rollup watcher created: [closed, start]
  watcher,           \* the `watcher` variable of _watch (index into watchers)
  closeCalls,        \* number of watcher.close() calls
  watcherSaw,        \* nitroContext.scannedMiddleware when the last watcher started
  onChange,          \* the scanner callback is registered
  initialScan,       \* result of the initial scan() of scanMiddleware
  latest,            \* the scanner's most recent snapshot
  nevents,           \* events delivered so far (scanner and bundler)
  lastEvent,         \* the event delivered last: [kind, watcher]
  publicSrc,         \* what is at nitroContext._nuxt.publicDir
  clientDist,        \* what is at <buildDir>/dist/client
  buildAssetsDir,    \* nitroContext._nuxt.buildAssetsDir
  existing,          \* output paths that exist when generate is called
  created,           \* output paths generate has created
  copies             \* the fse.copy calls of generate, in order

ctxVars == <<dev, output, vfs, disk, middleware, commands>>
tplVars == <<htmlTemplate, templateModule, diskReads, rollupConfig>>
typeVars == <<declFile, pending, writeTypesCalls>>
outVars == <<manifest, hints>>
watchVars == <<watchers, watcher, closeCalls, watcherSaw>>
scanVars == <<onChange, initialScan, latest>>
evVars == <<nevents, lastEvent>>
genVars == <<publicSrc, clientDist, buildAssetsDir, existing, created, copies>>
vars == <<pc, error, ctxVars, genVars, emptied, log, tplVars, scannedMiddleware,
          typeVars, outVars, watchVars, scanVars, evVars>>

(***************************************************************************)
(* Bounds of the model.                                                    *)
(***************************************************************************)
MaxPathLen == 5      \* longest directory path, in characters
MaxScanned == 2      \* longest scanned middleware list
MaxConfigured == 1   \* longest configured middleware list
MaxEvents == 2       \* scanner and bundler events delivered in one run

(***************************************************************************)
(* Strings as character sequences.                                         *)
(***************************************************************************)
SeqsUpTo(S, n) == UNION {[1..k -> S] : k \in 0..n}

\* String.prototype.startsWith
startsWith(s, p) == Len(p) <= Len(s) /\ SubSeq(s, 1, Len(p)) = p

PathChars == {"/", "o"}

\* normalized absolute paths: leading "/", no "//", no trailing "/" but for "/"
IsNormalized(p) ==
  /\ Len(p) >= 1 /\ p[1] = "/"
  /\ \A i \in 1..(Len(p) - 1) : ~(p[i] = "/" /\ p[i + 1] = "/")
  /\ (Len(p) > 1 => p[Len(p)] # "/")

Paths == {p \in SeqsUpTo(PathChars, MaxPathLen) : IsNormalized(p)}

\* p is root itself or lies inside root
IsSubpath(p, root) ==
  \/ p = root
  \/ /\ startsWith(p, root)
     /\ Len(p) > Len(root)
     /\ (root = <<"/">> \/ p[Len(root) + 1] = "/")

(***************************************************************************)
(* writeTypes: the Route Type Map and the declaration text (lines 65-93).  *)
(***************************************************************************)
buildDir == <<"/", "b">>     \* nitroContext._nuxt.buildDir

LowerCase == {"a", "b", "c", "s", "t"}

RECURSIVE Split(_)
\* String.prototype.split('/')
Split(s) ==
  IF \A i \in 1..Len(s) : s[i] # "/"
  THEN <<s>>
  ELSE LET i == CHOOSE j \in 1..Len(s) :
                  s[j] = "/" /\ \A k \in 1..(j - 1) : s[k] # "/"
       IN <<SubSeq(s, 1, i - 1)>> \o Split(SubSeq(s, i + 1, Len(s)))

RECURSIVE JoinPath(_)
\* Array.prototype.join('/')
JoinPath(segs) ==
  IF Len(segs) = 0 THEN <<>>
  ELSE IF Len(segs) = 1 THEN segs[1]
  ELSE segs[1] \o <<"/">> \o JoinPath(Tail(segs))

\* number of leading segments two split paths share
CommonLen(f, t) ==
  LET n == IF Len(f) < Len(t) THEN Len(f) ELSE Len(t)
      agree == {k \in 0..n : \A i \in 1..k : f[i] = t[i]}
  IN CHOOSE k \in agree : \A j \in agree : j <= k

\* pathe relative(from, to) of two absolute paths
relative(from, to) ==
  LET f == Split(from)
      t == Split(to)
      k == CommonLen(f, t)
  IN JoinPath([i \in 1..(Len(f) - k) |-> <<".", ".">>] \o SubSeq(t, k + 1, Len(t)))

\* s.replace(/\.[a-z]+$/, '')
StripExt(s) ==
  LET dots == {i \in 1..Len(s) : s[i] = "."}
  IN IF dots = {} THEN s
     ELSE LET d == CHOOSE i \in dots : \A j \in dots : j <= i
          IN IF d < Len(s) /\ \A k \in (d + 1)..Len(s) : s[k] \in LowerCase
             THEN SubSeq(s, 1, d - 1)
             ELSE s

\* `Awaited<ReturnType<typeof ${genDynamicImport(relativePath)}.default>>`
TypeExpr(handlePath) ==
  [kind |-> "Awaited<ReturnType<typeof import().default>>",
   import |-> StripExt(relative(buildDir, handlePath))]

UnionBar == [kind |-> " | ", import |-> <<>>]

RECURSIVE Join(_)
\* types.join(' | ')
Join(types) ==
  IF Len(types) = 0 THEN <<>>
  ELSE IF Len(types) = 1 THEN <<types[1]>>
  ELSE <<types[1], UnionBar>> \o Join(Tail(types))

\* a test that takes every handler to be a path
typeofString_always(handle) == TRUE

\* typeof mw.handle === 'string'
typeofString(handle) == handle.isString

\* routeTypes[mw.route] = [ty]: the last entry of a route wins
PushRouteType_lastWins(routeTypes, route, ty) ==
  IF \E i \in 1..Len(routeTypes) : routeTypes[i].path = route
  THEN [i \in 1..Len(routeTypes) |->
          IF routeTypes[i].path = route
          THEN [routeTypes[i] EXCEPT !.types = <<ty>>]
          ELSE routeTypes[i]]
  ELSE Append(routeTypes, [path |-> route, types |-> <<ty>>])

\* routeTypes[mw.route] = routeTypes[mw.route] || []; routeTypes[mw.route].push(ty)
\* (a Record keeps its string keys in insertion order)
PushRouteType(routeTypes, route, ty) ==
  IF \E i \in 1..Len(routeTypes) : routeTypes[i].path = route
  THEN [i \in 1..Len(routeTypes) |->
          IF routeTypes[i].path = route
          THEN [routeTypes[i] EXCEPT !.types = Append(@, ty)]
          ELSE routeTypes[i]]
  ELSE Append(routeTypes, [path |-> route, types |-> <<ty>>])

RECURSIVE RouteTypesLoop(_, _)
\* for (const mw of middleware) { if (typeof mw.handle !== 'string') continue ... }
RouteTypesLoop(routeTypes, mws) ==
  IF Len(mws) = 0 THEN routeTypes
  ELSE LET mw == Head(mws)
       IN IF ~typeofString(mw.handle)
          THEN RouteTypesLoop(routeTypes, Tail(mws))
          ELSE RouteTypesLoop(
                 PushRouteType(routeTypes, mw.route, TypeExpr(mw.handle.path)),
                 Tail(mws))

\* the text handed to writeFile: the `lines` array
Declaration(scanned, configured) ==
  LET routeTypes == RouteTypesLoop(<<>>, scanned \o configured)
  IN [head |-> <<"// Generated by nitro",
                 "declare module '@nuxt/nitro' {",
                 "  type Awaited<T> = T extends PromiseLike<infer U> ? Awaited<U> : T",
                 "  interface InternalApi {">>,
      members |-> [i \in 1..Len(routeTypes) |->
                     [path |-> routeTypes[i].path,
                      type |-> Join(routeTypes[i].types)]],
      tail |-> <<"  }", "}", "export {}">>]

NoFile == [head |-> <<>>, members |-> <<>>, tail |-> <<>>]

(***************************************************************************)
(* Middleware entries.                                                     *)
(***************************************************************************)
Routes == {"/", "/api/a"}
FnHandle == [isString |-> FALSE, path |-> <<>>]
HandlePaths == {<<"/", "b", "/", "a", ".", "t">>,
                <<"/", "s", "/", "a", ".", "t">>,
                <<"/", "b", "/", "a", ".", "T">>}
Handles == {FnHandle} \cup {[isString |-> TRUE, path |-> h] : h \in HandlePaths}
Entries == [route : Routes, handle : Handles]

(***************************************************************************)
(* Initial states.  Some(x)/None model a value that may be undefined or a  *)
(* file that may be missing.                                               *)
(***************************************************************************)
None == <<>>
Some(x) == <<x>>

InitRun ==
  /\ error = ""
  /\ emptied = <<>>
  /\ log = <<>>
  /\ htmlTemplate = ""
  /\ templateModule = None
  /\ diskReads = 0
  /\ rollupConfig = None
  /\ declFile = NoFile
  /\ pending = {}
  /\ writeTypesCalls = 0
  /\ manifest = None
  /\ hints = <<>>
  /\ watchers = <<>>
  /\ watcher = 0
  /\ closeCalls = 0
  /\ watcherSaw = <<>>
  /\ onChange = FALSE
  /\ initialScan = <<>>
  /\ latest = <<>>
  /\ nevents = 0
  /\ lastEvent = [kind |-> "", watcher |-> 0]
  /\ created = {}
  /\ copies = <<>>

cwd == <<"/", "w">>          \* process.cwd()

\* output directories nested in the root, and an output tree spread over
\* three unrelated directories
NestedOutput ==
  [dir |-> <<"/", "o">>,
   publicDir |-> <<"/", "o", "/", "p">>,
   serverDir |-> <<"/", "o", "/", "s">>]
SpreadOutput ==
  [dir |-> <<"/", "o">>,
   publicDir |-> <<"/", "p">>,
   serverDir |-> <<"/", "o", "/", "s">>]

NoCommands == [preview |-> None, deploy |-> None]
NodeCommands ==
  [preview |-> Some(<<"n", " ", "/", "o", "/", "s">>),
   deploy |-> Some(<<"d", " ", "/", "o", " ", "/", "o">>)]

DeployOnly ==
  [preview |-> None,
   deploy |-> Some(<<"d", " ", "/", "o", "/", "s", " ", "-", "o">>)]

ApiA == [route |-> "/api/a", handle |-> [isString |-> TRUE, path |-> <<"/", "s", "/", "a", ".", "t">>]]
ApiB == [route |-> "/api/a", handle |-> [isString |-> TRUE, path |-> <<"/", "b", "/", "a", ".", "t">>]]
Inline == [route |-> "/", handle |-> FnHandle]

\* the scan results the middleware scanner hands out in a run
Snapshots == {<<>>, <<ApiA>>, <<ApiA, ApiB>>}

\* the contexts the build pipeline is run with
PlainConfig ==
  [output |-> NestedOutput, vfs |-> None, disk |-> Some("disk"),
   middleware |-> <<>>, commands |-> NoCommands]
NoTemplateConfig ==
  [output |-> NestedOutput, vfs |-> None, disk |-> None,
   middleware |-> <<>>, commands |-> NoCommands]
Configs ==
  {PlainConfig,
   NoTemplateConfig,
   [output |-> SpreadOutput, vfs |-> Some("vfs"), disk |-> None,
    middleware |-> <<Inline>>, commands |-> NodeCommands],
   [output |-> NestedOutput, vfs |-> Some(""), disk |-> Some("disk"),
    middleware |-> <<ApiB>>, commands |-> NodeCommands],
   [output |-> SpreadOutput, vfs |-> None, disk |-> Some("disk"),
    middleware |-> <<>>, commands |-> DeployOnly]}

\* the contexts a development (watch) run is started with
DevConfigs == {PlainConfig, NoTemplateConfig}

\* generate is not part of this run
NoGenerate ==
  /\ publicSrc = "missing"
  /\ clientDist = "missing"
  /\ buildAssetsDir = <<>>
  /\ existing = {}

Init ==
  /\ InitRun
  /\ NoGenerate
  /\ pc = "prepare"
  /\ scannedMiddleware = <<>>
  /\ dev \in BOOLEAN
  /\ \E c \in Configs :
       /\ dev => c \in DevConfigs
       /\ output = c.output
       /\ vfs = c.vfs
       /\ disk = c.disk
       /\ middleware = c.middleware
       /\ commands = c.commands

(***************************************************************************)
(* prepare (lines 12-24) and cleanupDir (lines 26-29).                     *)
(***************************************************************************)
Push(entry) == log' = Append(log, entry)

\* cleanupDir(dir): consola.info('Cleaning up', ...); await fse.emptyDir(dir)
cleanupDir(dir) == emptied' = Append(emptied, dir)

\* a test that takes only output.dir itself to be inside output.dir
InsideOutputDir_sameOnly(dir) == dir = output.dir

\* is this asset directory left to the cleanup of output.dir (lines 17, 21)
InsideOutputDir(dir) == startsWith(dir, output.dir)

\* line 15
prepare ==
  /\ pc = "prepare"
  /\ cleanupDir(output.dir)
  /\ Push(<<"cleanupDir", "output.dir">>)
  /\ pc' = "prepare_publicDir"
  /\ UNCHANGED <<error, ctxVars, genVars, tplVars, scannedMiddleware, typeVars,
                 outVars, watchVars, scanVars, evVars>>

\* lines 17-19
prepare_publicDir ==
  /\ pc = "prepare_publicDir"
  /\ IF ~InsideOutputDir(output.publicDir)
     THEN cleanupDir(output.publicDir) /\ Push(<<"cleanupDir", "output.publicDir">>)
     ELSE UNCHANGED <<emptied, log>>
  /\ pc' = "prepare_serverDir"
  /\ UNCHANGED <<error, ctxVars, genVars, tplVars, scannedMiddleware, typeVars,
                 outVars, watchVars, scanVars, evVars>>

\* lines 21-23; prepare returns and the caller goes on to build
prepare_serverDir ==
  /\ pc = "prepare_serverDir"
  /\ IF ~InsideOutputDir(output.serverDir)
     THEN cleanupDir(output.serverDir) /\ Push(<<"cleanupDir", "output.serverDir">>)
     ELSE UNCHANGED <<emptied, log>>
  /\ pc' = "build"
  /\ UNCHANGED <<error, ctxVars, genVars, tplVars, scannedMiddleware, typeVars,
                 outVars, watchVars, scanVars, evVars>>

\* prepare alone, over every triple of normalized output paths
InitPrepare ==
  /\ InitRun
  /\ NoGenerate
  /\ pc = "prepare"
  /\ scannedMiddleware = <<>>
  /\ dev = FALSE
  /\ output \in [dir : Paths, publicDir : Paths, serverDir : Paths]
  /\ vfs = None
  /\ disk = None
  /\ middleware = <<>>
  /\ commands = NoCommands

NextPrepare == prepare \/ prepare_publicDir \/ prepare_serverDir

SpecPrepare == InitPrepare /\ [][NextPrepare]_vars

(***************************************************************************)
(* build (lines 50-63).                                                    *)
(***************************************************************************)
Reject(e) == pc' = "rejected" /\ error' = e

\* line 55: nitroContext.vfs[src] || await fse.readFile(src, 'utf-8')
build ==
  /\ pc = "build"
  /\ IF vfs # None /\ vfs[1] # ""
     THEN /\ htmlTemplate' = vfs[1]
          /\ pc' = "build_document"
          /\ UNCHANGED <<diskReads, error>>
     ELSE /\ diskReads' = diskReads + 1
          /\ IF disk # None
             THEN htmlTemplate' = disk[1] /\ pc' = "build_document" /\ UNCHANGED error
             ELSE UNCHANGED htmlTemplate /\ Reject("ENOENT")
  /\ Push(<<"read", "template">>)
  /\ UNCHANGED <<ctxVars, genVars, emptied, templateModule, rollupConfig, scannedMiddleware,
                 typeVars, outVars, watchVars, scanVars, evVars>>

\* line 56: the 'nitro:document' hook may rewrite htmlTemplate.contents
build_document ==
  /\ pc = "build_document"
  /\ \E contents \in {htmlTemplate, "hooked"} : htmlTemplate' = contents
  /\ Push(<<"callHook", "nitro:document">>)
  /\ pc' = "build_writeTemplate"
  /\ UNCHANGED <<error, ctxVars, genVars, emptied, templateModule, diskReads, rollupConfig,
                 scannedMiddleware, typeVars, outVars, watchVars, scanVars, evVars>>

\* 'export default ' + serializeTemplate(contents)
Compiled(contents) == [exportDefault |-> contents]

\* lines 57-58
build_writeTemplate ==
  /\ pc = "build_writeTemplate"
  /\ templateModule' = Some(Compiled(htmlTemplate))
  /\ Push(<<"writeFile", "template">>)
  /\ pc' = "build_getRollupConfig"
  /\ UNCHANGED <<error, ctxVars, genVars, emptied, htmlTemplate, diskReads, rollupConfig,
                 scannedMiddleware, typeVars, outVars, watchVars, scanVars, evVars>>

\* line 60
build_getRollupConfig ==
  /\ pc = "build_getRollupConfig"
  /\ rollupConfig' = Some("rollupConfig")
  /\ pc' = "build_rollupBefore"
  /\ UNCHANGED <<error, ctxVars, genVars, emptied, log, htmlTemplate, templateModule, diskReads,
                 scannedMiddleware, typeVars, outVars, watchVars, scanVars, evVars>>

\* the dispatch of line 62 without the hook call of line 61
build_rollupBefore_skipped ==
  /\ pc = "build_rollupBefore"
  /\ pc' = IF dev THEN "_watch" ELSE "_build"
  /\ UNCHANGED <<error, ctxVars, genVars, emptied, log, tplVars, scannedMiddleware, typeVars,
                 outVars, watchVars, scanVars, evVars>>

\* lines 61-62
build_rollupBefore ==
  /\ pc = "build_rollupBefore"
  /\ Push(<<"callHook", "nitro:rollup:before">>)
  /\ pc' = IF dev THEN "_watch" ELSE "_build"
  /\ UNCHANGED <<error, ctxVars, genVars, emptied, tplVars, scannedMiddleware, typeVars,
                 outVars, watchVars, scanVars, evVars>>

(***************************************************************************)
(* writeTypes as a step of its callers: the synchronous part computes the  *)
(* text and calls writeFile (line 92), which settles later.                *)
(***************************************************************************)
writeTypes(scanned, origin) ==
  /\ writeTypesCalls' = writeTypesCalls + 1
  /\ pending' = pending \cup
       {[id |-> writeTypesCalls + 1,
         lines |-> Declaration(scanned, middleware),
         origin |-> origin]}

\* writeFile of the write w settles
writeFileSettles(w, ok) ==
  /\ w \in pending
  /\ pending' = pending \ {w}
  /\ declFile' = IF ok THEN w.lines ELSE declFile
  /\ UNCHANGED writeTypesCalls

(***************************************************************************)
(* _build (lines 95-140).                                                  *)
(***************************************************************************)
\* line 96: scanMiddleware without a callback
_build ==
  /\ pc = "_build"
  /\ \E scan \in Snapshots : scannedMiddleware' = scan /\ latest' = scan
  /\ Push(<<"scanMiddleware", "">>)
  /\ pc' = "_build_writeTypes"
  /\ UNCHANGED <<error, ctxVars, genVars, emptied, tplVars, typeVars, outVars, watchVars,
                 onChange, initialScan, evVars>>

\* line 97, up to the await
_build_writeTypes ==
  /\ pc = "_build_writeTypes"
  /\ writeTypes(scannedMiddleware, "_build")
  /\ pc' = "_build_awaitTypes"
  /\ UNCHANGED <<error, ctxVars, genVars, emptied, log, tplVars, scannedMiddleware, declFile,
                 outVars, watchVars, scanVars, evVars>>

\* line 97, the await
_build_typesWritten ==
  /\ pc = "_build_awaitTypes"
  /\ \E w \in pending, ok \in BOOLEAN :
       /\ w.origin = "_build"
       /\ writeFileSettles(w, ok)
       /\ IF ok
          THEN pc' = "_build_rollup" /\ Push(<<"writeFile", "nitro.d.ts">>) /\ UNCHANGED error
          ELSE Reject("writeFile") /\ UNCHANGED log
  /\ UNCHANGED <<ctxVars, genVars, emptied, tplVars, scannedMiddleware, outVars, watchVars,
                 scanVars, evVars>>

\* a catch handler that logs and does not re-throw
_build_rollup_swallowed ==
  /\ pc = "_build_rollup"
  /\ \E ok \in BOOLEAN :
       log' = log \o <<<<"consola.start", "Building server...">>,
                       <<"rollup.rollup", IF ok THEN "fulfilled" ELSE "rejected">>>>
                  \o (IF ok THEN <<>> ELSE <<<<"consola.error", "Rollup error: ">>>>)
  /\ pc' = "_build_write"
  /\ UNCHANGED <<error, ctxVars, genVars, emptied, tplVars, scannedMiddleware, typeVars, outVars,
                 watchVars, scanVars, evVars>>

\* lines 99-103: rollup.rollup(...).catch(error => { consola.error(...); throw error })
_build_rollup ==
  /\ pc = "_build_rollup"
  /\ \E ok \in BOOLEAN :
       IF ok
       THEN /\ log' = log \o <<<<"consola.start", "Building server...">>,
                               <<"rollup.rollup", "fulfilled">>>>
            /\ pc' = "_build_write"
            /\ UNCHANGED error
       ELSE /\ log' = log \o <<<<"consola.start", "Building server...">>,
                               <<"rollup.rollup", "rejected">>,
                               <<"consola.error", "Rollup error: ">>>>
            /\ Reject("rollup")
  /\ UNCHANGED <<ctxVars, genVars, emptied, tplVars, scannedMiddleware, typeVars, outVars,
                 watchVars, scanVars, evVars>>

\* build.write is not awaited: the manifest step begins before the bundle
\* write has completed
_build_write_unawaited ==
  /\ pc = "_build_write"
  /\ pc' = "_build_manifest"
  /\ UNCHANGED <<error, ctxVars, genVars, emptied, log, tplVars, scannedMiddleware, typeVars,
                 outVars, watchVars, scanVars, evVars>>

\* lines 105-106
_build_write ==
  /\ pc = "_build_write"
  /\ Push(<<"build.write", "">>)
  /\ pc' = "_build_manifest"
  /\ UNCHANGED <<error, ctxVars, genVars, emptied, tplVars, scannedMiddleware, typeVars,
                 outVars, watchVars, scanVars, evVars>>

RECURSIVE replaceAll(_, _, _)
\* replaceAll(input, from, to), from a non-empty literal
replaceAll(input, from, to) ==
  IF Len(input) < Len(from) \/ Len(from) = 0 THEN input
  ELSE IF startsWith(input, from)
       THEN to \o replaceAll(SubSeq(input, Len(from) + 1, Len(input)), from, to)
       ELSE <<Head(input)>> \o replaceAll(Tail(input), from, to)

\* a rewrite that puts '.' whatever the target
rewriteBuildPaths_dotOnly(input, to) ==
  IF input # None THEN Some(replaceAll(input[1], output.dir, <<".">>)) ELSE None

\* lines 108-109
rewriteBuildPaths(input, to) ==
  IF input # None THEN Some(replaceAll(input[1], output.dir, to)) ELSE None

\* lines 112-121
_build_manifest ==
  /\ pc = "_build_manifest"
  /\ manifest' = Some([preview |-> rewriteBuildPaths(commands.preview, <<".">>),
                       deploy |-> rewriteBuildPaths(commands.deploy, <<".">>)])
  /\ Push(<<"writeFile", "nitro.json">>)
  /\ pc' = "_build_tree"
  /\ UNCHANGED <<error, ctxVars, genVars, emptied, tplVars, scannedMiddleware, typeVars,
                 hints, watchVars, scanVars, evVars>>

\* lines 123-124
_build_tree ==
  /\ pc = "_build_tree"
  /\ log' = log \o <<<<"consola.success", "Server built">>, <<"printFSTree", "">>>>
  /\ pc' = "_build_compiled"
  /\ UNCHANGED <<error, ctxVars, genVars, emptied, tplVars, scannedMiddleware, typeVars,
                 outVars, watchVars, scanVars, evVars>>

\* line 125
_build_compiled ==
  /\ pc = "_build_compiled"
  /\ Push(<<"callHook", "nitro:compiled">>)
  /\ pc' = "_build_hints"
  /\ UNCHANGED <<error, ctxVars, genVars, emptied, tplVars, scannedMiddleware, typeVars,
                 outVars, watchVars, scanVars, evVars>>

\* line 131: the fixed text of the preview hint
NuxiPreview == <<"n", "u", "x", "i", " ", "p", "r", "e", "v", "i", "e", "w">>

\* a hint test that takes every command to be configured
Truthy_always(command) == TRUE

\* a command that is configured: a non-empty string
Truthy(command) == command # None /\ command[1] # <<>>

\* lines 128-139
_build_hints ==
  /\ pc = "_build_hints"
  /\ LET rOutDir == relative(cwd, output.dir)
     IN hints' =
          (IF Truthy(commands.preview)
           THEN <<[for |-> "preview", command |-> Some(NuxiPreview)]>>
           ELSE <<>>)
          \o
          (IF Truthy(commands.deploy)
           THEN <<[for |-> "deploy",
                   command |-> rewriteBuildPaths(commands.deploy, rOutDir)]>>
           ELSE <<>>)
  /\ pc' = "done"
  /\ UNCHANGED <<error, ctxVars, genVars, emptied, log, tplVars, scannedMiddleware, typeVars,
                 manifest, watchVars, scanVars, evVars>>

(***************************************************************************)
(* startRollupWatcher (lines 142-170) and _watch (lines 172-186).          *)
(***************************************************************************)
FsEvents == {"add", "addDir", "change", "unlink", "unlinkDir"}
RollupCodes == {"START", "BUNDLE_START", "END", "ERROR"}

\* line 143: rollup.watch(...) opens a new watch session
startRollupWatcher(ws) == Append(ws, [closed |-> FALSE, start |-> 0])

\* watcher.close() left out of the restart
close_forgotten(ws, w) == ws

\* line 179: watcher.close()
close(ws, w) == [ws EXCEPT ![w].closed = TRUE]

\* a restart test that knows 'add' only
IsRestartEvent_addOnly(event) == event = "add"

\* line 178: ['add', 'addDir'].includes(event)
IsRestartEvent(event) == event \in {"add", "addDir"}

Live == {w \in 1..Len(watchers) : ~watchers[w].closed}

\* lines 173-175 up to the await: start the watcher, hand the callback to the
\* scanner, which starts its initial scan
_watch ==
  /\ pc = "_watch"
  /\ watchers' = startRollupWatcher(watchers)
  /\ watcher' = Len(watchers) + 1
  /\ watcherSaw' = scannedMiddleware
  /\ onChange' = TRUE
  /\ \E scan \in Snapshots : initialScan' = scan /\ latest' = scan
  /\ log' = log \o <<<<"rollup.watch", "">>, <<"scanMiddleware", "">>>>
  /\ pc' = "_watch_awaitScan"
  /\ UNCHANGED <<error, ctxVars, genVars, emptied, tplVars, scannedMiddleware, typeVars,
                 outVars, closeCalls, evVars>>

\* line 175, the await and the assignment; line 185 up to the await
_watch_scanned ==
  /\ pc = "_watch_awaitScan"
  /\ scannedMiddleware' = initialScan
  /\ writeTypes(initialScan, "_watch")
  /\ pc' = "_watch_awaitTypes"
  /\ UNCHANGED <<error, ctxVars, genVars, emptied, log, tplVars, declFile, outVars,
                 watchVars, scanVars, evVars>>

\* line 185, the await: _watch returns, or throws what writeFile threw
_watch_typesWritten ==
  /\ pc = "_watch_awaitTypes"
  /\ \E w \in pending, ok \in BOOLEAN :
       /\ w.origin = "_watch"
       /\ writeFileSettles(w, ok)
       /\ IF ok THEN pc' = "done" /\ UNCHANGED error ELSE Reject("writeFile")
  /\ UNCHANGED <<ctxVars, genVars, emptied, log, tplVars, scannedMiddleware, outVars,
                 watchVars, scanVars, evVars>>

\* the assignment of line 177 moved behind the restart
listAtRestart_stale(old, scan) == old

\* the list lines 179-181 find in the context: line 177 has stored the
\* scanner's new scan before them
listAtRestart(old, scan) == scan

\* scanMiddleware: the callback is handed to the file watcher when
\* scanMiddleware is entered, so an event can be reported while the initial
\* scan is still awaited
CallbackArmed == onChange

\* lines 176-183: the scanner reports a filesystem event with its new scan
onChange_callback ==
  /\ CallbackArmed
  /\ nevents < MaxEvents
  /\ \E scan \in Snapshots, event \in FsEvents :
       /\ scannedMiddleware' = scan
       /\ latest' = scan
       /\ lastEvent' = [kind |-> event, watcher |-> 0]
       /\ IF IsRestartEvent(event)
          THEN /\ watchers' = startRollupWatcher(close(watchers, watcher))
               /\ closeCalls' = closeCalls + 1
               /\ writeTypes(listAtRestart(scannedMiddleware, scan), "onChange")
               /\ watcher' = Len(watchers) + 1
               /\ watcherSaw' = listAtRestart(scannedMiddleware, scan)
          ELSE UNCHANGED <<watchVars, pending, writeTypesCalls>>
  /\ nevents' = nevents + 1
  /\ UNCHANGED <<pc, error, ctxVars, genVars, emptied, log, tplVars, declFile, outVars,
                 onChange, initialScan>>

\* line 180: the un-awaited writeTypes settles; .catch(console.error)
onChange_typesSettled ==
  /\ \E w \in pending, ok \in BOOLEAN :
       /\ w.origin = "onChange"
       /\ writeFileSettles(w, ok)
       /\ IF ok THEN UNCHANGED log ELSE Push(<<"console.error", "writeFile">>)
  /\ UNCHANGED <<pc, error, ctxVars, genVars, emptied, tplVars, scannedMiddleware, outVars,
                 watchVars, scanVars, evVars>>

\* an 'event' handler that gives up the watch session on ERROR
handleEvent_closeOnError(ws, w, code, now) ==
  IF code = "BUNDLE_START" THEN [ws EXCEPT ![w].start = now]
  ELSE IF code = "ERROR" THEN [ws EXCEPT ![w].closed = TRUE]
  ELSE ws

\* an 'event' handler that takes the time on START as well
handleEvent_stampOnStart(ws, w, code, now) ==
  IF code \in {"START", "BUNDLE_START"} THEN [ws EXCEPT ![w].start = now] ELSE ws

\* lines 147-167: what the 'event' handler does to the watch sessions
\* (BUNDLE_START: start = Date.now())
handleEvent(ws, w, code, now) ==
  IF code = "BUNDLE_START" THEN [ws EXCEPT ![w].start = now] ELSE ws

\* lines 146-168: a live watcher emits an event
rollupEvent ==
  /\ nevents < MaxEvents
  /\ \E w \in Live, code \in RollupCodes :
       /\ lastEvent' = [kind |-> code, watcher |-> w]
       /\ watchers' = handleEvent(watchers, w, code, nevents + 1)
       /\ log' = IF code = "END"
                 THEN log \o <<<<"callHook", "nitro:compiled">>,
                               <<"consola.success", "Nitro built">>>>
                 ELSE IF code = "ERROR"
                 THEN Append(log, <<"consola.error", "Rollup error: ">>)
                 ELSE log
  /\ nevents' = nevents + 1
  /\ UNCHANGED <<pc, error, ctxVars, genVars, emptied, tplVars, scannedMiddleware, typeVars,
                 outVars, watcher, closeCalls, watcherSaw, scanVars>>

Next ==
  \/ prepare \/ prepare_publicDir \/ prepare_serverDir
  \/ build \/ build_document \/ build_writeTemplate
  \/ build_getRollupConfig \/ build_rollupBefore
  \/ _build \/ _build_writeTypes \/ _build_typesWritten \/ _build_rollup
  \/ _build_write \/ _build_manifest \/ _build_tree \/ _build_compiled
  \/ _build_hints
  \/ _watch \/ _watch_scanned \/ _watch_typesWritten
  \/ onChange_callback \/ onChange_typesSettled \/ rollupEvent

Spec == Init /\ [][Next]_vars

(***************************************************************************)
(* writeTypes called on its own, over every bounded middleware list.       *)
(***************************************************************************)
InitTypes ==
  /\ InitRun
  /\ NoGenerate
  /\ pc = "writeTypes"
  /\ dev = FALSE
  /\ output = NestedOutput
  /\ vfs = None
  /\ disk = None
  /\ commands = NoCommands
  /\ middleware \in SeqsUpTo(Entries, MaxConfigured)
  /\ scannedMiddleware \in SeqsUpTo(Entries, MaxScanned)

\* the exported writeTypes is called, up to its await (line 92)
writeTypes_called ==
  /\ pc = "writeTypes"
  /\ writeTypes(scannedMiddleware, "direct")
  /\ pc' = "writeTypes_await"
  /\ UNCHANGED <<error, ctxVars, genVars, emptied, log, tplVars, scannedMiddleware, declFile,
                 outVars, watchVars, scanVars, evVars>>

\* line 92, the await
writeTypes_settled ==
  /\ pc = "writeTypes_await"
  /\ \E w \in pending, ok \in BOOLEAN :
       /\ w.origin = "direct"
       /\ writeFileSettles(w, ok)
       /\ IF ok THEN pc' = "done" /\ UNCHANGED error ELSE Reject("writeFile")
  /\ UNCHANGED <<ctxVars, genVars, emptied, log, tplVars, scannedMiddleware, outVars,
                 watchVars, scanVars, evVars>>

NextTypes == writeTypes_called \/ writeTypes_settled

SpecTypes == InitTypes /\ [][NextTypes]_vars

(***************************************************************************)
(* generate (lines 31-48).                                                 *)
(***************************************************************************)
\* what the paths of _nuxt.publicDir and <buildDir>/dist/client may hold
PathStates == {"missing", "dir", "file"}

\* isDirectory(path)
isDirectory(state) == state = "dir"

\* pathe join(a, b): the segments of both, empty ones dropped
join(a, b) ==
  LET segs == SelectSeq(Split(a) \o Split(b), LAMBDA x : x # <<>>)
  IN <<"/">> \o JoinPath(segs)

\* the directory p and the directories above it
SelfAndAbove(p) ==
  {SubSeq(p, 1, i) : i \in {j \in 1..Len(p) : j = Len(p) \/ p[j + 1] = "/"}}

\* fse.copy(src, dest) that succeeds: dest exists afterwards, with the
\* directories that lead to it
Copied(dest) == created \cup (SelfAndAbove(dest) \ existing)

\* await fse.copy(src, dest): it copies, or it throws, having made the
\* destination or not
copy(src, dest, next) ==
  \/ /\ created' = Copied(dest)
     /\ copies' = Append(copies, [src |-> src, dest |-> dest])
     /\ pc' = next
     /\ UNCHANGED error
  \/ /\ created' \in {created, Copied(dest)}
     /\ copies' = Append(copies, [src |-> src, dest |-> dest])
     /\ Reject("copy")

\* a generate that copies the public directory without looking at it
generate_publicDir_unguarded ==
  /\ pc = "generate_publicDir"
  /\ copy("_nuxt.publicDir", output.publicDir, "generate_clientDist")
  /\ UNCHANGED <<ctxVars, publicSrc, clientDist, buildAssetsDir, existing, emptied, log,
                 tplVars, scannedMiddleware, typeVars, outVars, watchVars, scanVars,
                 evVars>>

\* lines 32-34
generate ==
  /\ pc = "generate"
  /\ log' = log \o <<<<"consola.start", "Generating public...">>,
                     <<"callHook", "nitro:generate">>>>
  /\ pc' = "generate_publicDir"
  /\ UNCHANGED <<error, ctxVars, genVars, emptied, tplVars, scannedMiddleware,
                 typeVars, outVars, watchVars, scanVars, evVars>>

\* lines 36-39
generate_publicDir ==
  /\ pc = "generate_publicDir"
  /\ IF isDirectory(publicSrc)
     THEN copy("_nuxt.publicDir", output.publicDir, "generate_clientDist")
     ELSE pc' = "generate_clientDist" /\ UNCHANGED <<error, created, copies>>
  /\ UNCHANGED <<ctxVars, publicSrc, clientDist, buildAssetsDir, existing, emptied, log,
                 tplVars, scannedMiddleware, typeVars, outVars, watchVars, scanVars,
                 evVars>>

\* lines 41-45
generate_clientDist ==
  /\ pc = "generate_clientDist"
  /\ IF isDirectory(clientDist)
     THEN copy("dist/client", join(output.publicDir, buildAssetsDir), "generate_success")
     ELSE pc' = "generate_success" /\ UNCHANGED <<error, created, copies>>
  /\ UNCHANGED <<ctxVars, publicSrc, clientDist, buildAssetsDir, existing, emptied, log,
                 tplVars, scannedMiddleware, typeVars, outVars, watchVars, scanVars,
                 evVars>>

\* line 47
generate_success ==
  /\ pc = "generate_success"
  /\ Push(<<"consola.success", "Generated public">>)
  /\ pc' = "done"
  /\ UNCHANGED <<error, ctxVars, genVars, emptied, tplVars, scannedMiddleware,
                 typeVars, outVars, watchVars, scanVars, evVars>>

\* generate alone, over what the source directories and the output tree hold
InitGenerate ==
  /\ InitRun
  /\ pc = "generate"
  /\ scannedMiddleware = <<>>
  /\ dev = FALSE
  /\ output \in {NestedOutput, SpreadOutput}
  /\ vfs = None
  /\ disk = None
  /\ middleware = <<>>
  /\ commands = NoCommands
  /\ publicSrc \in PathStates
  /\ clientDist \in PathStates
  /\ buildAssetsDir \in {<<>>, <<"/", "n", "/">>}
  /\ existing \in {e \in SUBSET (SelfAndAbove(output.dir) \cup SelfAndAbove(output.publicDir)) :
                     \A p \in e : SelfAndAbove(p) \subseteq e}

NextGenerate ==
  generate \/ generate_publicDir \/ generate_clientDist \/ generate_success

SpecGenerate == InitGenerate /\ [][NextGenerate]_vars

(***************************************************************************)
(* Properties.                                                             *)
(***************************************************************************)
Range(f) == {f[i] : i \in DOMAIN f}
Count(f, x) == Cardinality({i \in DOMAIN f : f[i] = x})
\* the places of entry x in the log
At(x) == {i \in DOMAIN log : log[i] = x}
\* every x in the log comes after some y
After(x, y) == \A i \in At(x) : \E j \in At(y) : j < i

\* the step delivers a scanner event / a bundler event
ScannerEventStep == nevents' = nevents + 1 /\ lastEvent'.kind \in FsEvents
RollupEventStep == nevents' = nevents + 1 /\ lastEvent'.kind \in RollupCodes

\* C1: in watch mode at most one bundler watch session is live at any time:
\* every watcher but the one started last has been closed, so each restart
\* closed the previous watcher before it started the new one.
C1_OneLiveWatcher ==
  /\ Cardinality(Live) <= 1
  /\ \A w \in 1..(Len(watchers) - 1) : watchers[w].closed

\* two restarts have happened and one session is live
C1_Witness ==
  /\ dev
  /\ Len(watchers) = 3
  /\ closeCalls = 2
  /\ Live = {3}

\* C2: a scanner event of kind 'add' or 'addDir' closes the watcher,
\* regenerates the type declarations and starts a new watcher, each exactly
\* once; an event of any other kind neither closes nor restarts the watcher.
C2_RestartOnAddOnly ==
  [][ScannerEventStep =>
       IF lastEvent'.kind \in {"add", "addDir"}
       THEN /\ closeCalls' = closeCalls + 1
            /\ watchers'[watcher].closed
            /\ writeTypesCalls' = writeTypesCalls + 1
            /\ Cardinality(pending') = Cardinality(pending) + 1
            /\ Len(watchers') = Len(watchers) + 1
            /\ watcher' = Len(watchers')
            /\ ~watchers'[watcher'].closed
       ELSE /\ closeCalls' = closeCalls
            /\ watchers' = watchers
            /\ watcher' = watcher
            /\ writeTypesCalls' = writeTypesCalls
            /\ pending' = pending]_vars

\* an 'addDir' restarted the watcher once and a later 'unlink' left it alone
C2_Witness ==
  /\ nevents = 2
  /\ lastEvent.kind = "unlink"
  /\ closeCalls = 1
  /\ Len(watchers) = 2
  /\ writeTypesCalls \in {1, 2}
  /\ Live = {2}

\* C3: a bundler event never changes which watcher is live: none is closed
\* or started, the outcome of build is untouched, and ERROR only logs.
C3_RollupEventsKeepWatcher ==
  [][RollupEventStep =>
       /\ Live' = Live
       /\ lastEvent'.watcher \in Live'
       /\ watcher' = watcher
       /\ Len(watchers') = Len(watchers)
       /\ closeCalls' = closeCalls
       /\ pc' = pc
       /\ error' = error
       /\ (lastEvent'.kind = "ERROR" =>
             /\ log' = Append(log, <<"consola.error", "Rollup error: ">>)
             /\ watchers' = watchers)]_vars

\* an ERROR was delivered, logged, and its watcher is still the live one
C3_Witness ==
  /\ lastEvent.kind = "ERROR"
  /\ Live = {lastEvent.watcher}
  /\ watcher = lastEvent.watcher
  /\ log[Len(log)] = <<"consola.error", "Rollup error: ">>
  /\ pc = "done"

\* the stage of a production build a log entry belongs to (0: none)
StageOf(e) ==
  IF e[1] = "cleanupDir" THEN 1
  ELSE IF e = <<"writeFile", "template">> THEN 2
  ELSE IF e[1] = "rollup.rollup" THEN 3
  ELSE IF e[1] = "build.write" THEN 4
  ELSE IF e = <<"writeFile", "nitro.json">> THEN 5
  ELSE IF e[1] = "printFSTree" THEN 6
  ELSE 0

IsStage(n) == n # 0
Stages == SelectSeq([i \in DOMAIN log |-> StageOf(log[i])], IsStage)

\* C4: in a production build the steps complete in this order: directory
\* cleanup, template write, bundler invocation, bundle write, manifest
\* write, tree printing; none is skipped and none but cleanup repeats.
C4_ProductionOrder ==
  ~dev =>
    /\ \A i, j \in DOMAIN Stages :
         i < j => Stages[i] <= Stages[j] /\ (Stages[i] = Stages[j] => Stages[i] = 1)
    /\ \A i \in DOMAIN Stages :
         Stages[i] > 1 => \E j \in 1..(i - 1) : Stages[j] = Stages[i] - 1
    /\ (pc = "done" => 6 \in Range(Stages))

\* a production build over a spread output tree ran to its end
C4_Witness ==
  /\ ~dev
  /\ pc = "done"
  /\ Len(emptied) = 2
  /\ Stages = <<1, 1, 2, 3, 4, 5, 6>>

RollupRejected == <<"rollup.rollup", "rejected">>
RollupErrorLine == <<"consola.error", "Rollup error: ">>

\* C5: when the bundler invocation of a production build fails, the error
\* is logged once with the 'Rollup error: ' prefix and build rejects with
\* it; the bundler is not invoked again and no later step runs.
C5_RollupFailureIsFatal ==
  (~dev /\ RollupRejected \in Range(log)) =>
    /\ pc = "rejected"
    /\ error = "rollup"
    /\ Count(log, RollupRejected) = 1
    /\ Count(log, RollupErrorLine) = 1
    /\ log[Len(log)] = RollupErrorLine
    /\ <<"rollup.rollup", "fulfilled">> \notin Range(log)
    /\ <<"build.write", "">> \notin Range(log)
    /\ <<"writeFile", "nitro.json">> \notin Range(log)
    /\ <<"callHook", "nitro:compiled">> \notin Range(log)
    /\ manifest = None
    /\ hints = <<>>

\* the bundler invocation failed in a production build
C5_Witness ==
  /\ ~dev
  /\ pc = "rejected"
  /\ error = "rollup"
  /\ RollupRejected \in Range(log)

\* C6: in watch mode a failed write of the declaration file, in the
\* initial generation or in a regeneration, never makes build reject and
\* never closes the live watcher.
C6_TypesFailureNeverFatal ==
  (dev /\ onChange) =>
    /\ ~(pc = "rejected" /\ error = "writeFile")
    /\ Cardinality(Live) = 1

\* C7: when the public and the server directory are subpaths of the output
\* root, prepare empties the output root and nothing else.
C7_OnlyRootEmptied ==
  (IsSubpath(output.publicDir, output.dir) /\ IsSubpath(output.serverDir, output.dir)) =>
    /\ (pc = "prepare" => emptied = <<>>)
    /\ (pc # "prepare" => emptied = <<output.dir>>)

\* prepare has run over a root with two distinct directories inside it
C7_Witness ==
  /\ pc = "build"
  /\ IsSubpath(output.publicDir, output.dir)
  /\ IsSubpath(output.serverDir, output.dir)
  /\ output.publicDir # output.dir
  /\ output.serverDir # output.dir
  /\ output.publicDir # output.serverDir
  /\ emptied = <<output.dir>>

Document == <<"callHook", "nitro:document">>
RollupBefore == <<"callHook", "nitro:rollup:before">>
CompiledHook == <<"callHook", "nitro:compiled">>
BundlerStarted ==
  {i \in DOMAIN log : log[i][1] \in {"rollup.rollup", "rollup.watch"}}

\* C8: nitro:document is called once, after the template is read and
\* before it is written, and the written module holds the contents the hook
\* left; nitro:rollup:before is called once, with the bundler configuration
\* attached and before the bundler is invoked or a watcher started;
\* nitro:compiled is called only after that, and in production once, after
\* the manifest is written.
C8_HookOrder ==
  /\ Count(log, Document) <= 1
  /\ Count(log, RollupBefore) <= 1
  /\ After(Document, <<"read", "template">>)
  /\ After(<<"writeFile", "template">>, Document)
  /\ (templateModule # None => templateModule = Some(Compiled(htmlTemplate)))
  /\ After(RollupBefore, <<"writeFile", "template">>)
  /\ (RollupBefore \in Range(log) => rollupConfig # None)
  /\ \A i \in BundlerStarted : \E j \in At(RollupBefore) : j < i
  /\ (watchers # <<>> => RollupBefore \in Range(log))
  /\ After(CompiledHook, RollupBefore)
  /\ (~dev => Count(log, CompiledHook) <= 1 /\ After(CompiledHook, <<"writeFile", "nitro.json">>))
  /\ (pc = "done" =>
        /\ Count(log, Document) = 1
        /\ Count(log, RollupBefore) = 1
        /\ (~dev => Count(log, CompiledHook) = 1))

\* a production build whose document hook rewrote the template ran to its
\* end, and a watch run called nitro:compiled after an END event
C8_Witness ==
  /\ pc = "done"
  /\ htmlTemplate = "hooked"
  /\ templateModule = Some(Compiled("hooked"))
  /\ CompiledHook \in Range(log)
  /\ (dev => lastEvent.kind = "END")

\* every text writeTypes has produced: in flight or on disk
Written == {w.lines : w \in pending} \cup (IF declFile = NoFile THEN {} ELSE {declFile})

HasPathHandle(mw) == mw.handle.isString
\* the entries with a filesystem-path handler, in list order
PathEntries == SelectSeq(scannedMiddleware \o middleware, HasPathHandle)
\* the derived type expressions of the path entries of route r, in list order
TypesOf(r) ==
  LET OnRoute(mw) == mw.route = r
      es == SelectSeq(PathEntries, OnRoute)
  IN [i \in DOMAIN es |-> TypeExpr(es[i].handle.path)]

\* C9: for each distinct route among the entries with a filesystem-path
\* handler the declaration has exactly one interface member, whose type is
\* the ' | ' union, in list order, of one type expression per such entry.
C9_UnionPerRoute ==
  \A text \in Written :
    \A r \in {mw.route : mw \in Range(PathEntries)} :
      /\ Cardinality({i \in DOMAIN text.members : text.members[i].path = r}) = 1
      /\ \A i \in DOMAIN text.members :
           text.members[i].path = r =>
             /\ Len(text.members[i].type) = 2 * Len(TypesOf(r)) - 1
             /\ \A k \in DOMAIN TypesOf(r) :
                  text.members[i].type[2 * k - 1] = TypesOf(r)[k]
             /\ \A k \in 1..(Len(TypesOf(r)) - 1) :
                  text.members[i].type[2 * k] = UnionBar

\* a declaration on disk whose member unites two different type expressions
C9_Witness ==
  /\ pc = "done"
  /\ \E i \in DOMAIN declFile.members :
       /\ Len(declFile.members[i].type) = 3
       /\ declFile.members[i].type[1] # declFile.members[i].type[3]

\* C10: an entry whose handler is not a filesystem path adds no type
\* expression, and a route with only such entries gets no interface member.
C10_InlineHandlersSkipped ==
  \A text \in Written :
    /\ \A i \in DOMAIN text.members :
         text.members[i].path \in {mw.route : mw \in Range(PathEntries)}
    /\ \A i \in DOMAIN text.members :
         Cardinality({k \in DOMAIN text.members[i].type :
                        text.members[i].type[k] # UnionBar})
           = Len(TypesOf(text.members[i].path))

\* a written declaration for a list in which one route has only an inline
\* handler and another route has a path handler
C10_Witness ==
  /\ pc = "done"
  /\ declFile # NoFile
  /\ \E mw \in Range(scannedMiddleware \o middleware) :
       /\ ~mw.handle.isString
       /\ \A i \in DOMAIN declFile.members : declFile.members[i].path # mw.route
  /\ Len(declFile.members) = 1

\* the command of nitroContext.commands a hint is for
CommandFor(name) == IF name = "preview" THEN commands.preview ELSE commands.deploy
HintsFor(name) == {i \in DOMAIN hints : hints[i].for = name}

\* C11: a production build without a preview and without a deploy command
\* writes a manifest whose two command fields are undefined and prints no
\* hint; a hint is printed only for a command that is configured.
C11_NoCommandNoHint ==
  ~dev =>
    /\ (manifest # None =>
          /\ (commands.preview = None => manifest[1].preview = None)
          /\ (commands.deploy = None => manifest[1].deploy = None))
    /\ \A i \in DOMAIN hints : CommandFor(hints[i].for) # None
    /\ (commands.preview = None /\ commands.deploy = None => hints = <<>>)

\* a production build without commands ran to its end
C11_Witness ==
  /\ ~dev
  /\ pc = "done"
  /\ commands = NoCommands
  /\ manifest = Some([preview |-> None, deploy |-> None])
  /\ hints = <<>>

\* the places at which d occurs in s
Occurrences(s, d) ==
  {i \in 1..(Len(s) - Len(d) + 1) : SubSeq(s, i, i + Len(d) - 1) = d}

RECURSIVE Flatten(_)
Flatten(pieces) ==
  IF Len(pieces) = 0 THEN <<>> ELSE Head(pieces) \o Flatten(Tail(pieces))

\* s with every occurrence of d replaced by to (occurrences that do not
\* overlap): position by position, an occurrence starts, continues, or the
\* character stands
Rewritten(s, d, to) ==
  LET occ == Occurrences(s, d)
  IN Flatten([i \in DOMAIN s |->
                IF i \in occ THEN to
                ELSE IF \E j \in occ : j < i /\ i < j + Len(d) THEN <<>>
                ELSE <<s[i]>>])

\* the command is configured and names the output directory
NamesOutputDir(command) ==
  command # None /\ Occurrences(command[1], output.dir) # {}

\* C12 as stated: for the preview and for the deploy command alike, the
\* manifest holds the command with every occurrence of the output directory
\* replaced by '.', and the hint printed for it holds the command with every
\* occurrence replaced by the output path relative to the working directory.
C12_BothHintsRewritten ==
  (~dev /\ pc = "done") =>
    \A name \in {"preview", "deploy"} :
      NamesOutputDir(CommandFor(name)) =>
        /\ manifest # None
        /\ (IF name = "preview" THEN manifest[1].preview ELSE manifest[1].deploy)
             = Some(Rewritten(CommandFor(name)[1], output.dir, <<".">>))
        /\ Cardinality(HintsFor(name)) = 1
        /\ \A i \in HintsFor(name) :
             hints[i].command
               = Some(Rewritten(CommandFor(name)[1], output.dir, relative(cwd, output.dir)))

\* C12, amended: the manifest holds both commands with every occurrence of
\* the output directory replaced by '.'; the deploy hint holds the deploy
\* command with every occurrence replaced by the output path relative to
\* the working directory; the preview hint is the fixed text 'nuxi preview'.
C12_DeployHintRewritten ==
  (~dev /\ pc = "done") =>
    /\ \A name \in {"preview", "deploy"} :
         NamesOutputDir(CommandFor(name)) =>
           /\ manifest # None
           /\ (IF name = "preview" THEN manifest[1].preview ELSE manifest[1].deploy)
                = Some(Rewritten(CommandFor(name)[1], output.dir, <<".">>))
           /\ Cardinality(HintsFor(name)) = 1
    /\ \A i \in HintsFor("deploy") :
         hints[i].command
           = Some(Rewritten(commands.deploy[1], output.dir, relative(cwd, output.dir)))
    /\ \A i \in HintsFor("preview") : hints[i].command = Some(NuxiPreview)

\* a production build whose two commands name the output directory, the
\* deploy command twice, ran to its end
C12_Witness ==
  /\ ~dev
  /\ pc = "done"
  /\ NamesOutputDir(commands.preview)
  /\ Cardinality(Occurrences(commands.deploy[1], output.dir)) = 2
  /\ manifest[1].deploy = Some(<<"d", " ", ".", " ", ".">>)
  /\ Len(hints) = 2
  /\ hints[2].command = Some(<<"d", " ", ".", ".", "/", "o", " ", ".", ".", "/", "o">>)

\* C13 as stated: generate called without a public-assets source directory
\* completes without error and does not create the output public
\* directory, whatever the client-build output directory holds.
C13_NoSourceNoDestination ==
  ~isDirectory(publicSrc) =>
    /\ pc # "rejected"
    /\ output.publicDir \notin created

\* C13, amended: generate called without a public-assets source directory
\* copies nothing from it; when the client-build output directory is absent
\* as well, generate completes without error, copies nothing and creates
\* nothing; when it is present it is copied under the output public
\* directory, and a completed generate has then created that directory
\* unless it existed.
C13_NoSourceOnlyClientCopy ==
  ~isDirectory(publicSrc) =>
    /\ \A i \in DOMAIN copies : copies[i].src # "_nuxt.publicDir"
    /\ (~isDirectory(clientDist) =>
          /\ pc # "rejected"
          /\ copies = <<>>
          /\ created = {})
    /\ (isDirectory(clientDist) /\ pc = "done" =>
          /\ Len(copies) = 1
          /\ copies[1].dest = join(output.publicDir, buildAssetsDir)
          /\ output.publicDir \in existing \cup created)

\* generate ran to its end with neither source directory present and no
\* output public directory before or after
C13_Witness ==
  /\ pc = "done"
  /\ publicSrc = "missing"
  /\ clientDist = "file"
  /\ output.publicDir \notin existing \cup created
  /\ copies = <<>>
  /\ <<"callHook", "nitro:generate">> \in Range(log)

\* C14: a scanner event of kind 'add' or 'addDir' in watch mode stops the
\* current watcher, regenerates the declaration file, starts a fresh watcher
\* and sets the context's middleware list to the scanner's latest snapshot;
\* the regeneration and the fresh watcher both see that snapshot, not the
\* list from before the event.
C14_RestartSeesLatest ==
  [][ScannerEventStep /\ lastEvent'.kind \in {"add", "addDir"} =>
       /\ watchers'[watcher].closed
       /\ closeCalls' = closeCalls + 1
       /\ writeTypesCalls' = writeTypesCalls + 1
       /\ pending' \ pending =
            {[id |-> writeTypesCalls',
              lines |-> Declaration(latest', middleware),
              origin |-> "onChange"]}
       /\ watcher' = Len(watchers) + 1
       /\ Live' = {watcher'}
       /\ scannedMiddleware' = latest'
       /\ watcherSaw' = latest']_vars

\* a file was added: the list in the context changed, the old watcher is
\* closed, and the fresh watcher and the pending regeneration hold the new list
C14_Witness ==
  /\ dev
  /\ lastEvent.kind = "add"
  /\ closeCalls = 1
  /\ latest = <<ApiA, ApiB>>
  /\ initialScan = <<ApiA>>
  /\ watcherSaw = <<ApiA, ApiB>>
  /\ scannedMiddleware = <<ApiA, ApiB>>
  /\ \E w \in pending : w.origin = "onChange"
                        /\ w.lines = Declaration(<<ApiA, ApiB>>, middleware)
  /\ Declaration(<<ApiA, ApiB>>, middleware) # Declaration(<<ApiA>>, middleware)

\* C15: in watch mode the nitro:compiled hook is invoked exactly once for
\* each END event of a watcher and for no other bundler event; BUNDLE_START
\* only records the start timestamp of that watcher, and START has no effect.
C15_CompiledOncePerEnd ==
  [][RollupEventStep =>
       LET code == lastEvent'.kind
           w == lastEvent'.watcher
           hook == <<"callHook", "nitro:compiled">>
       IN /\ Count(log', hook) = Count(log, hook) + (IF code = "END" THEN 1 ELSE 0)
          /\ (code = "END" => watchers' = watchers)
          /\ (code = "BUNDLE_START" =>
                /\ log' = log
                /\ watchers' = [watchers EXCEPT ![w].start = nevents']
                /\ <<pc, error, watcher, closeCalls, scannedMiddleware, typeVars>>' =
                     <<pc, error, watcher, closeCalls, scannedMiddleware, typeVars>>)
          /\ (code = "START" =>
                /\ log' = log
                /\ <<pc, error, watchVars, scannedMiddleware, typeVars, outVars>>' =
                     <<pc, error, watchVars, scannedMiddleware, typeVars, outVars>>)]_vars

\* a watcher took the time at BUNDLE_START and then reported END, and the
\* hook has run once
C15_Witness ==
  /\ dev
  /\ nevents = 2
  /\ lastEvent.kind = "END"
  /\ watchers[lastEvent.watcher].start = 1
  /\ Count(log, <<"callHook", "nitro:compiled">>) = 1

\* C16: whenever the virtual file map holds an entry for the template
\* source path, the empty string included, the template contents come from
\* that entry and the disk is not read; the disk is read only when the map
\* has no entry for the path.
C16_VfsEntryShadowsDisk ==
  /\ (vfs # None =>
        /\ diskReads = 0
        /\ (pc = "build_document" => htmlTemplate = vfs[1]))
  /\ (vfs = None /\ pc \notin {"prepare", "prepare_publicDir", "prepare_serverDir", "build"} =>
        diskReads = 1)

\* C17: in watch mode, once the initial scan has completed, the context's
\* middleware list equals the most recent snapshot the scanner produced,
\* however the scanner's events interleaved with the completion of the
\* initial scan: a snapshot delivered by an event is never overwritten by
\* the older result of the initial scan.
C17_ListIsLatestSnapshot ==
  dev /\ pc \in {"_watch_awaitTypes", "done"} => scannedMiddleware = latest

\* C18: in watch mode, whenever no type generation is in flight, the
\* declaration file on disk corresponds to the context's current middleware
\* list: neither an event that changes the list without regenerating nor two
\* regenerations finishing out of order leave it stale.
C18_DeclarationIsCurrent ==
  dev /\ pending = {} /\ declFile # NoFile =>
    declFile = Declaration(scannedMiddleware, middleware)

\* C19: after prepare completes the root output directory has been emptied,
\* and every asset directory that is not nested inside the root (a sibling
\* whose path merely begins with the root's path string included) has been
\* emptied by its own cleanup.
C19_OutsideDirsEmptied ==
  pc = "build" =>
    /\ output.dir \in Range(emptied)
    /\ \A d \in {output.publicDir, output.serverDir} :
         ~IsSubpath(d, output.dir) => d \in Range(emptied)

====
